---- MODULE Spec2Model ----
(***************************************************************************)
(* Lifecycle state machine of Module (src/module.js): construction, load, *)
(* show/hide, enable/disable, error, destroy, with nested subModules and  *)
(* the promise chains of load() as interleaved steps.                     *)
(***************************************************************************)
EXTENDS Integers, Sequences, FiniteSets, TLC

VARIABLES
    objects,    \* the Module instances that have been constructed
    modules,    \* modules[m]: the fields of instance m and of its element
    loads,      \* the load() invocations so far, each a promise chain
    calls,      \* calls[m]: how often each collaborator / hook was invoked
                \* (onError: whether it was); destroyed: destroy() has
                \* returned and load() has not been called since
    last,       \* the step just taken (operation, instance, outcome; for
                \* enable(), the operation on the instance right before it)
    budget,     \* application-level calls already made
    walk        \* the getClosestAncestorElementByClassName() call under way

vars == <<objects, modules, loads, calls, last, budget, walk>>

\* ------------------------------------------------------------------ bounds
MaxCalls == 3
MaxTreeCalls == 2
MaxLoads == 2
MaxTreeLoads == 1
MaxTplNodes == 2
MaxDepth == 3

Modules == {1, 2, 3}

\* ------------------------------------------------- default option values
loadedClass == "module-loaded"
activeClass == "module-active"
disabledClass == "module-disabled"
errorClass == "module-error"

\* The values options.template and options.data can take, by the case the
\* code distinguishes.
TemplateKinds == {"empty", "HTMLTemplateElement", "HTMLElement", "url"}
DataKinds == {"object", "url"}

\* JavaScript values of the fields the constructor leaves unassigned.
Undefined == "undefined"
JsTrue == "true"
JsFalse == "false"

Range(s) == {s[i] : i \in 1..Len(s)}

\* DOM helpers -------------------------------------------------------------
\* el.classList.add / remove on an element that exists
classListAdd(ms, m, c) == [ms EXCEPT ![m].classList = @ \cup {c}]
classListRemove(ms, m, c) == [ms EXCEPT ![m].classList = @ \ {c}]

RECURSIVE Without(_, _)
Without(s, n) ==
    IF s = <<>> THEN <<>>
    ELSE IF Head(s) = n THEN Without(Tail(s), n)
    ELSE <<Head(s)>> \o Without(Tail(s), n)

RECURSIVE WithoutAll(_, _)
WithoutAll(s, ns) ==
    IF ns = <<>> THEN s ELSE WithoutAll(Without(s, Head(ns)), Tail(ns))

\* ---------------------------------------------------------------- error()
\* returns the new fields and whether the call threw (this.el is null)
error(ms, m) ==
    IF ~ms[m].el
    THEN [ms |-> ms, threw |-> TRUE]
    ELSE [ms |-> [classListAdd(ms, m, errorClass) EXCEPT
                    ![m].errored = JsTrue,
                    ![m].loaded = FALSE,
                    ![m].loadStatus = "notLoaded"],
          threw |-> FALSE]

\* ------------------------------------------------------ enable / disable
enableUnlessOriginallyDisabled(ms, m) ==
    [(IF ms[m].el /\ ~ms[m].origDisabled
      THEN classListRemove(ms, m, disabledClass) ELSE ms)
        EXCEPT ![m].disabled = JsFalse]

enable(ms, m) ==
    [(IF ms[m].el THEN classListRemove(ms, m, disabledClass) ELSE ms)
        EXCEPT ![m].disabled = JsFalse]

disable(ms, m) ==
    [(IF ms[m].el THEN classListAdd(ms, m, disabledClass) ELSE ms)
        EXCEPT ![m].disabled = JsTrue]

\* ------------------------------------------------------------ show / hide
show(ms, m) ==
    [(IF ms[m].el THEN classListAdd(ms, m, activeClass) ELSE ms)
        EXCEPT ![m].active = TRUE]

hide(ms, m) ==
    [(IF ms[m].el THEN classListRemove(ms, m, activeClass) ELSE ms)
        EXCEPT ![m].active = FALSE]

\* ------------------------------------------- _handleElementInitialState()
handleElementInitialState(ms, m) ==
    IF ~ms[m].el THEN ms
    ELSE LET d == IF disabledClass \in ms[m].classList
                  THEN disable([ms EXCEPT ![m].origDisabled = TRUE], m)
                  ELSE ms
         IN  IF errorClass \in d[m].classList
             THEN error([d EXCEPT ![m].origError = TRUE], m).ms
             ELSE d

\* ------------------------------------------------------------ constructor
\* el: whether an element was passed; pre: the classes it carries then
Blank(el, pre, template, data) ==
    [el |-> el, classList |-> IF el THEN pre ELSE {}, childNodes |-> <<>>,
     template |-> template, data |-> data,
     subModules |-> {}, active |-> FALSE, loaded |-> FALSE,
     errored |-> Undefined, disabled |-> Undefined,
     elChildren |-> <<>>, loadStatus |-> "notLoaded",
     origDisabled |-> FALSE, origError |-> FALSE,
     preClassList |-> IF el THEN pre ELSE {}]

constructor(ms, m) ==
    [handleElementInitialState(ms, m) EXCEPT
        ![m].subModules = {},
        ![m].active = FALSE,
        ![m].loaded = FALSE,
        ![m].elChildren = <<>>,
        ![m].loadStatus = "notLoaded"]

RECURSIVE ConstructAll(_, _)
ConstructAll(ms, todo) ==
    IF todo = {} THEN ms
    ELSE LET m == CHOOSE x \in todo : TRUE
         IN  ConstructAll(constructor(ms, m), todo \ {m})

\* The classes an element may carry before its Module is constructed.
PreClassLists == SUBSET {disabledClass, errorClass} \cup {{loadedClass, activeClass}}

Held(topo) == {1} \cup UNION {topo[m] : m \in Modules}

NoCalls ==
    [css |-> 0, data |-> 0, tpl |-> 0, mount |-> 0, onLoad |-> 0, onError |-> 0,
     sinceReset |-> 0, removed |-> 0, destroyed |-> FALSE]

\* No ancestor walk has been asked for.
NoWalk ==
    [chain |-> <<>>, el |-> 0, startTarget |-> 0, pc |-> "idle", parentNode |-> 0,
     result |-> 0, inspected |-> {}, iterations |-> 0]

NoEvent ==
    [op |-> "new", mod |-> 0, inv |-> 0, threw |-> FALSE,
     err |-> [type |-> "none", at |-> 0], thrown |-> [type |-> "none", at |-> 0],
     done |-> {}, after |-> ""]

\* The state after the application has constructed the instances of
\* Held(topo) with the given elements and options and filled the child maps.
Constructed(topo, els, pres, tpls, datas) ==
    /\ objects = Held(topo)
    /\ modules = [m \in Modules |->
                    [ConstructAll([x \in Modules |->
                                     Blank(els[x], pres[x], tpls[x], datas[x])],
                                  Modules)[m]
                        EXCEPT !.subModules = topo[m]]]
    /\ loads = <<>>
    /\ calls = [m \in Modules |-> NoCalls]
    /\ last = NoEvent
    /\ budget = 0
    /\ walk = NoWalk

\* One Module without subModules, every kind of element and option.
Init ==
    \E el \in BOOLEAN, pre \in PreClassLists :
    \E template \in TemplateKinds, data \in DataKinds :
        /\ ~el => pre = {}
        /\ Constructed([m \in Modules |-> {}],
                       [m \in Modules |-> m = 1 /\ el],
                       [m \in Modules |-> IF m = 1 THEN pre ELSE {}],
                       [m \in Modules |-> template],
                       [m \in Modules |-> data])

\* A parent holding subModules: two children, or a child and a grandchild.
\* Every instance loads its template and its data from a url.
Topologies ==
    { [m \in Modules |-> IF m = 1 THEN {2, 3} ELSE {}],
      [m \in Modules |-> IF m = 1 THEN {2} ELSE IF m = 2 THEN {3} ELSE {}] }

TreePreClassLists == {{}, {disabledClass, errorClass}}

InitTree ==
    \E topo \in Topologies :
    \E els \in [Modules -> BOOLEAN] :
    \E pres \in [Modules -> TreePreClassLists] :
        /\ \A m \in Modules : ~els[m] => pres[m] = {}
        /\ Constructed(topo, els, pres,
                       [m \in Modules |-> "url"],
                       [m \in Modules |-> "url"])

\* Application-level calls allowed in a run.
CallLimit == IF objects = {1} THEN MaxCalls ELSE MaxTreeCalls

\* Application-level load() calls allowed in a run.
LoadLimit == IF objects = {1} THEN MaxLoads ELSE MaxTreeLoads

\* How many top-level nodes a template can hold: none, one, the most.
NodeCounts == IF objects = {1} THEN {0, 1, MaxTplNodes} ELSE {1}

\* ------------------------------------------------------- lifecycle calls
Event(op, m, i, threw, err) ==
    [op |-> op, mod |-> m, inv |-> i, threw |-> threw, err |-> err,
     thrown |-> [type |-> "none", at |-> 0], done |-> {}, after |-> ""]

NoErr == [type |-> "none", at |-> 0]

Enable(m) ==
    /\ m \in objects /\ budget < CallLimit
    /\ modules' = enable(modules, m)
    /\ last' = [Event("enable", m, 0, FALSE, NoErr) EXCEPT
                    !.after = IF last.mod = m THEN last.op ELSE ""]
    /\ budget' = budget + 1
    /\ UNCHANGED <<walk, objects, loads, calls>>

Disable(m) ==
    /\ m \in objects /\ budget < CallLimit
    /\ modules' = disable(modules, m)
    /\ last' = Event("disable", m, 0, FALSE, NoErr)
    /\ budget' = budget + 1
    /\ UNCHANGED <<walk, objects, loads, calls>>

Show(m) ==
    /\ m \in objects /\ budget < CallLimit
    /\ modules' = show(modules, m)
    /\ last' = Event("show", m, 0, FALSE, NoErr)
    /\ budget' = budget + 1
    /\ UNCHANGED <<walk, objects, loads, calls>>

Hide(m) ==
    /\ m \in objects /\ budget < CallLimit
    /\ modules' = hide(modules, m)
    /\ last' = Event("hide", m, 0, FALSE, NoErr)
    /\ budget' = budget + 1
    /\ UNCHANGED <<walk, objects, loads, calls>>

\* error(err) called by the application; e = err || new Error()
Error(m) ==
    /\ m \in objects /\ budget < CallLimit
    /\ LET r == error(modules, m)
       IN  /\ modules' = r.ms
           /\ last' = Event("error", m, 0, r.threw,
                            [type |-> "Error", at |-> 0])
           /\ calls' = IF r.threw THEN calls
                       ELSE [calls EXCEPT ![m].onError = 1]
    /\ budget' = budget + 1
    /\ UNCHANGED <<walk, objects, loads>>

\* ------------------------------------------------------------------ load()
\* The synchronous part of load(): the guard on loaded, loadStatus, and the
\* load() of every subModule, each returning its own promise.
SeqOf(S) ==
    LET RECURSIVE asc(_)
        asc(T) == IF T = {} THEN <<>>
                  ELSE LET x == CHOOSE y \in T : \A z \in T : y <= z
                       IN  <<x>> \o asc(T \ {x})
    IN  asc(S)

InFlight(lds, m) ==
    {j \in 1..Len(lds) : lds[j].mod = m /\ lds[j].pc \notin {"resolved", "rejected"}}

\* A new promise chain of m; overlap records that another load() of m had
\* not settled when this one was called.
Invocation(lds, m, pc, caller) ==
    [mod |-> m, pc |-> pc, caller |-> caller, err |-> NoErr,
     nodes |-> <<>>, log |-> <<>>, overlap |-> InFlight(lds, m) # {}]

Started(lds, m, pc, caller) ==
    Append([j \in 1..Len(lds) |->
                IF j \in InFlight(lds, m) THEN [lds[j] EXCEPT !.overlap = TRUE]
                ELSE lds[j]],
           Invocation(lds, m, pc, caller))

RECURSIVE load(_, _, _, _)
RECURSIVE loadEach(_, _, _, _)
loadUnguarded(ms, lds, m, caller) ==
    loadEach([ms EXCEPT ![m].loadStatus = "loading"],
             Started(lds, m, "all", caller),
             SeqOf(ms[m].subModules), Len(lds) + 1)

load(ms, lds, m, caller) ==
    IF ~ms[m].loaded
    THEN loadEach([ms EXCEPT ![m].loadStatus = "loading"],
                  Started(lds, m, "all", caller),
                  SeqOf(ms[m].subModules), Len(lds) + 1)
    ELSE [ms |-> ms, lds |-> Started(lds, m, "resolved", caller)]

loadEach(ms, lds, keys, caller) ==
    IF keys = <<>> THEN [ms |-> ms, lds |-> lds]
    ELSE LET r == load(ms, lds, Head(keys), caller)
         IN  loadEach(r.ms, r.lds, Tail(keys), caller)

Load(m) ==
    /\ m \in objects /\ budget < CallLimit
    /\ Cardinality({j \in 1..Len(loads) : loads[j].caller = 0}) < LoadLimit
    /\ LET r == load(modules, loads, m, 0)
       IN  /\ modules' = r.ms
           /\ loads' = r.lds
           /\ last' = Event("load", m, Len(loads) + 1, FALSE, NoErr)
           /\ calls' = [x \in Modules |->
                          IF \E j \in (Len(loads) + 1)..Len(r.lds) : r.lds[j].mod = x
                          THEN [calls[x] EXCEPT !.destroyed = FALSE]
                          ELSE calls[x]]
    /\ budget' = budget + 1
    /\ UNCHANGED <<walk, objects>>

\* The load() promises of the subModules, pushed by invocation i.
loadPromises(lds, i) == {j \in 1..Len(lds) : lds[j].caller = i}

\* Promise.all(loadPromises): resolved once every promise is
PromiseAllEager(lds, i) == TRUE
PromiseAll(lds, i) == \A j \in loadPromises(lds, i) : lds[j].pc = "resolved"

\* Promise.all(loadPromises) resolved: getStyles(this.options.styles)
PromiseAllResolved(i) ==
    /\ i \in 1..Len(loads) /\ loads[i].pc = "all"
    /\ PromiseAll(loads, i)
    /\ loads' = [loads EXCEPT ![i].pc = "css", ![i].log = Append(@, "css")]
    /\ calls' = [calls EXCEPT ![loads[i].mod].css = @ + 1]
    /\ last' = Event("getStyles", loads[i].mod, i, FALSE, NoErr)
    /\ UNCHANGED <<walk, objects, modules, budget>>

\* fetchData(url, options): the collaborator is used for a string only
fetchData(url) ==
    IF url # "url" THEN "Promise.resolve" ELSE "ResourceManager.fetchData"

LoadCssResolved(i) ==
    /\ i \in 1..Len(loads) /\ loads[i].pc = "css"
    /\ LET m == loads[i].mod
       IN  /\ calls' = IF fetchData(modules[m].data) = "ResourceManager.fetchData"
                       THEN [calls EXCEPT ![m].data = @ + 1] ELSE calls
           /\ last' = Event("fetchData", m, i, FALSE, NoErr)
    /\ loads' = [loads EXCEPT ![i].pc = "data", ![i].log = Append(@, "data")]
    /\ UNCHANGED <<walk, objects, modules, budget>>

Rejected(i, type) ==
    /\ loads' = [loads EXCEPT ![i].pc = "catch",
                              ![i].err = [type |-> type, at |-> i]]
    /\ last' = Event("rejected", loads[i].mod, i, FALSE, [type |-> type, at |-> i])
    /\ UNCHANGED <<walk, objects, modules, calls, budget>>

LoadCssRejected(i) ==
    /\ i \in 1..Len(loads) /\ loads[i].pc = "css"
    /\ Rejected(i, "css")

\* getTemplate(): the nodes each kind of template yields. A fragment's
\* childNodes is live: appending the template element to a new fragment
\* takes it out of the element or fragment that held it.
TemplateElementNode(m) == <<0, m>>
Clones(i, k) == [j \in 1..k |-> <<i, j>>]

getTemplate(ms, lds, i, k) ==
    LET m == lds[i].mod
        t == ms[m].template
        n == TemplateElementNode(m)
    IN  IF t = "HTMLElement"
        THEN [ms |-> [ms EXCEPT ![m].childNodes = Without(@, n)],
              lds |-> [j \in 1..Len(lds) |->
                        IF j = i THEN [lds[j] EXCEPT !.nodes = <<n>>]
                        ELSE [lds[j] EXCEPT !.nodes = Without(@, n)]]]
        ELSE IF t = "HTMLTemplateElement"
        THEN [ms |-> ms, lds |-> [lds EXCEPT ![i].nodes = Clones(i, k)]]
        ELSE [ms |-> ms, lds |-> lds]

FetchDataResolved(i) ==
    /\ i \in 1..Len(loads) /\ loads[i].pc = "data"
    /\ \E k \in NodeCounts :
        LET m == loads[i].mod
            r == getTemplate(modules, loads, i, k)
        IN  /\ modules' = r.ms
            /\ loads' = [r.lds EXCEPT ![i].pc = "tpl", ![i].log = Append(@, "tpl")]
            /\ calls' = IF r.ms[m].template = "url"
                        THEN [calls EXCEPT ![m].tpl = @ + 1] ELSE calls
            /\ last' = Event("getTemplate", m, i, FALSE, NoErr)
    /\ UNCHANGED <<walk, objects, budget>>

FetchDataRejected(i) ==
    /\ i \in 1..Len(loads) /\ loads[i].pc = "data"
    /\ fetchData(modules[loads[i].mod].data) = "ResourceManager.fetchData"
    /\ Rejected(i, "data")

\* The callback that mounts the nodes (lines 154-172).
mountForgetsLoaded(ms, m, nodes) ==
    LET pushed == [ms EXCEPT ![m].elChildren = @ \o nodes]
    IN  IF ~ms[m].el
        THEN [ms |-> pushed, threw |-> TRUE]
        ELSE [ms |-> [classListAdd(pushed, m, loadedClass) EXCEPT
                        ![m].childNodes = WithoutAll(@, nodes) \o nodes,
                        ![m].loadStatus = "loaded"],
              threw |-> FALSE]

mount(ms, m, nodes) ==
    LET pushed == [ms EXCEPT ![m].elChildren = @ \o nodes]
    IN  IF ~ms[m].el
        THEN [ms |-> pushed, threw |-> TRUE]
        ELSE [ms |-> [classListAdd(pushed, m, loadedClass) EXCEPT
                        ![m].childNodes = WithoutAll(@, nodes) \o nodes,
                        ![m].loaded = TRUE,
                        ![m].loadStatus = "loaded"],
              threw |-> FALSE]

TemplateResolved(i) ==
    /\ i \in 1..Len(loads) /\ loads[i].pc = "tpl"
    /\ \E k \in NodeCounts :
        LET m == loads[i].mod
            nodes == IF modules[m].template = "url" THEN Clones(i, k)
                     ELSE loads[i].nodes
            r == mount(modules, m, nodes)
            e == [type |-> "TypeError", at |-> i]
        IN  /\ modules' = r.ms
            /\ loads' = [loads EXCEPT
                            ![i].pc = IF r.threw THEN "catch" ELSE "resolved",
                            ![i].err = IF r.threw THEN e ELSE @,
                            ![i].nodes = nodes,
                            ![i].log = Append(@, "mount")]
            /\ calls' = [calls EXCEPT
                            ![m].mount = @ + 1,
                            ![m].sinceReset = @ + 1,
                            ![m].onLoad = IF r.threw THEN @ ELSE @ + 1]
            /\ last' = Event("mount", m, i, r.threw, IF r.threw THEN e ELSE NoErr)
    /\ UNCHANGED <<walk, objects, budget>>

TemplateRejected(i) ==
    /\ i \in 1..Len(loads) /\ loads[i].pc = "tpl"
    /\ modules[loads[i].mod].template = "url"
    /\ Rejected(i, "tpl")

\* .catch((e) => { this.error(e); throw e; }) and, for a subModule's load,
\* the rejection of the caller's Promise.all
Catch(i) ==
    /\ i \in 1..Len(loads) /\ loads[i].pc = "catch"
    /\ LET m == loads[i].mod
           r == error(modules, m)
           e == IF r.threw THEN [type |-> "TypeError", at |-> i] ELSE loads[i].err
           c == loads[i].caller
           own == [loads EXCEPT ![i].pc = "rejected", ![i].err = e]
       IN  /\ modules' = r.ms
           /\ loads' = IF c # 0 /\ loads[c].pc = "all"
                       THEN [own EXCEPT ![c].pc = "catch", ![c].err = e]
                       ELSE own
           /\ calls' = IF r.threw THEN calls
                       ELSE [calls EXCEPT ![m].onError = 1]
           /\ last' = [Event("catch", m, i, r.threw, e) EXCEPT !.thrown = loads[i].err]
    /\ UNCHANGED <<walk, objects, budget>>

\* --------------------------------------------- _resetElementInitialState()
resetElementClears(ms, m) ==
    IF ~ms[m].el THEN ms
    ELSE classListRemove(classListRemove(ms, m, disabledClass), m, errorClass)

resetElementInitialState(ms, m) ==
    IF ~ms[m].el THEN ms
    ELSE LET d == IF ms[m].origDisabled
                  THEN classListAdd(ms, m, disabledClass)
                  ELSE classListRemove(ms, m, disabledClass)
         IN  IF ~ms[m].origError
             THEN classListRemove(d, m, errorClass)
             ELSE classListAdd(d, m, errorClass)

\* --------------------------------------------------------------- destroy()
\* returns the new fields, whether the call threw, and the instances whose
\* destroy() returned
resetFlags(ms, m) ==
    [ms EXCEPT ![m].subModules = {},
               ![m].active = FALSE,
               ![m].loaded = FALSE,
               ![m].errored = JsFalse,
               ![m].loadStatus = "notLoaded"]

removeMountedKeepsList(ms, m) ==
    [ms EXCEPT ![m].childNodes = WithoutAll(@, ms[m].elChildren)]

removeMountedFirstOnly(ms, m) ==
    [ms EXCEPT ![m].childNodes =
                    IF ms[m].elChildren = <<>> THEN @
                    ELSE Without(@, Head(ms[m].elChildren)),
               ![m].elChildren = <<>>]

\* this._elChildren.forEach(...) and this._elChildren = [] (lines 417-422)
removeMounted(ms, m) ==
    [ms EXCEPT ![m].childNodes = WithoutAll(@, ms[m].elChildren),
               ![m].elChildren = <<>>]

RECURSIVE destroy(_, _)
RECURSIVE destroyEach(_, _, _)
destroy(ms, m) ==
    LET kids == destroyEach(ms, SeqOf(ms[m].subModules), {})
    IN  IF kids.threw THEN kids
        ELSE LET flags == resetFlags(kids.ms, m)
             IN  IF ~ms[m].el
                 THEN [ms |-> flags, threw |-> TRUE, done |-> kids.done]
                 ELSE [ms |-> removeMounted(
                                resetElementInitialState(
                                    classListRemove(
                                        classListRemove(flags, m, loadedClass),
                                        m, activeClass), m), m),
                       threw |-> FALSE, done |-> kids.done \cup {m}]

destroyEach(ms, keys, done) ==
    IF keys = <<>> THEN [ms |-> ms, threw |-> FALSE, done |-> done]
    ELSE LET r == destroy(ms, Head(keys))
         IN  IF r.threw THEN [r EXCEPT !.done = done \cup r.done]
             ELSE destroyEach(r.ms, Tail(keys), done \cup r.done)

Destroy(m) ==
    /\ m \in objects /\ budget < CallLimit
    /\ LET r == destroy(modules, m)
       IN  /\ modules' = r.ms
           /\ calls' = [x \in Modules |->
                          IF x \in r.done
                          THEN [calls[x] EXCEPT !.sinceReset = 0,
                                                !.destroyed = TRUE]
                          ELSE calls[x]]
           /\ last' = [Event("destroy", m, 0, r.threw, NoErr) EXCEPT !.done = r.done]
    /\ budget' = budget + 1
    /\ UNCHANGED <<walk, objects, loads>>

\* Code outside the Module takes a node out of the element.
ExternalRemove(m) ==
    /\ m \in objects /\ budget < CallLimit
    /\ \E n \in Range(modules[m].childNodes) :
        /\ modules' = [modules EXCEPT ![m].childNodes = Without(@, n)]
        /\ last' = Event("removeChild", m, 0, FALSE, NoErr)
    /\ calls' = [calls EXCEPT ![m].removed = @ + 1]
    /\ budget' = budget + 1
    /\ UNCHANGED <<walk, objects, loads>>

\* Ids of the load() invocations a run can make: each application-level
\* call starts one per instance at most.
Invocations == 1..(MaxLoads * Cardinality(Modules))

Settle(i) ==
    \/ PromiseAllResolved(i)
    \/ LoadCssResolved(i)
    \/ LoadCssRejected(i)
    \/ FetchDataResolved(i)
    \/ FetchDataRejected(i)
    \/ TemplateResolved(i)
    \/ TemplateRejected(i)
    \/ Catch(i)

Next ==
    \/ \E m \in Modules :
        \/ Load(m)
        \/ Show(m)
        \/ Hide(m)
        \/ Enable(m)
        \/ Disable(m)
        \/ Error(m)
        \/ Destroy(m)
        \/ ExternalRemove(m)
    \/ \E i \in Invocations : Settle(i)

Spec == Init /\ [][Next]_vars

\* The composite: the application loads and destroys, the chains settle.
NextTree ==
    \/ \E m \in Modules :
        \/ Load(m)
        \/ Destroy(m)
    \/ \E i \in Invocations : Settle(i)

SpecTree == InitTree /\ [][NextTree]_vars

\* ------------------------------------ getClosestAncestorElementByClassName()
\* A parent chain: node k's parentNode is node k + 1 and the last node's is
\* null. An element has a string className; the document, which can only end
\* a chain, has not. hasClass: whether classList contains the class asked for.
Null == 0

Element(hasClass) == [kind |-> "Element", hasClass |-> hasClass]
Document == [kind |-> "Document", hasClass |-> FALSE]

Chains ==
    LET els == UNION {[1..n -> {Element(TRUE), Element(FALSE)}] : n \in 0..MaxDepth}
    IN  els \cup {Append(c, Document) : c \in els}

\* A Module whose element, if it has one, is the first node of a chain, and
\* a call with a node of the chain as startTarget, or with none.
InitWalk ==
    /\ objects = {}
    /\ modules = [m \in Modules |-> Blank(FALSE, {}, "empty", "object")]
    /\ loads = <<>>
    /\ calls = [m \in Modules |-> NoCalls]
    /\ last = NoEvent
    /\ budget = 0
    /\ \E c \in Chains, el \in {Null, 1} :
       \E startTarget \in {Null} \cup (1..Len(c)) :
        /\ el # Null => (c # <<>> /\ c[1].kind = "Element")
        /\ walk = [NoWalk EXCEPT !.chain = c, !.el = el,
                                 !.startTarget = startTarget]

\* node.parentNode
parentNodeOf(w, node) == IF node < Len(w.chain) THEN node + 1 ELSE Null

\* startTarget || this.el.parentNode || this.el (line 391)
startEl(w) ==
    IF w.startTarget # Null THEN w.startTarget
    ELSE IF parentNodeOf(w, w.el) # Null THEN parentNodeOf(w, w.el)
    ELSE w.el

GetClosestAncestorElementByClassName ==
    /\ walk.pc = "idle"
    /\ walk' = IF walk.startTarget = Null /\ walk.el = Null
               THEN [walk EXCEPT !.pc = "threw"]
               ELSE [walk EXCEPT !.pc = "walking", !.result = Null,
                                 !.parentNode = startEl(walk)]
    /\ UNCHANGED <<objects, modules, loads, calls, last, budget>>

\* the arrow function of lines 386-390: the result so far and what it returns
callbackNeverStops(w, parent) ==
    IF w.chain[parent].hasClass
    THEN [result |-> parent, predicate |-> Undefined]
    ELSE [result |-> w.result, predicate |-> Undefined]

callback(w, parent) ==
    IF w.chain[parent].hasClass
    THEN [result |-> parent, predicate |-> JsFalse]
    ELSE [result |-> w.result, predicate |-> Undefined]

\* parentNode && typeof parentNode.className === 'string' (line 15)
loopCondition(w) ==
    w.parentNode # Null /\ w.chain[w.parentNode].kind = "Element"

\* One iteration of the while loop of traverseEachParent.
TraverseEachParent ==
    /\ walk.pc = "walking" /\ loopCondition(walk)
    /\ LET r == callback(walk, walk.parentNode)
           break == r.predicate # Undefined /\ r.predicate = JsFalse
       IN  walk' = [walk EXCEPT
                       !.result = r.result,
                       !.inspected = @ \cup {walk.parentNode},
                       !.iterations = @ + 1,
                       !.pc = IF break THEN "done" ELSE "walking",
                       !.parentNode = IF break THEN @
                                      ELSE parentNodeOf(walk, walk.parentNode)]
    /\ UNCHANGED <<objects, modules, loads, calls, last, budget>>

\* The loop ends without a break; return result.
TraverseEnd ==
    /\ walk.pc = "walking" /\ ~loopCondition(walk)
    /\ walk' = [walk EXCEPT !.pc = "done"]
    /\ UNCHANGED <<objects, modules, loads, calls, last, budget>>

NextWalk ==
    \/ GetClosestAncestorElementByClassName
    \/ TraverseEachParent
    \/ TraverseEnd

\* The walk is synchronous code: once called it runs to its return.
SpecWalk == InitWalk /\ [][NextWalk]_vars /\ WF_vars(NextWalk)

\* ===================================================================== claims

\* C1: when a load() has just settled successfully and load() is called again
\* on the same Module, the second call returns an already resolved promise,
\* invokes no collaborator or hook and leaves _elChildren unchanged; when
\* these two calls are all the application has done, each step of the
\* fetch/mount sequence has run exactly once.
C1_SecondLoadIsNoOp ==
    [][\A m \in Modules :
        (last.op = "mount" /\ ~last.threw /\ last.mod = m
            /\ last'.op = "load" /\ last'.mod = m)
        => /\ Len(loads') = Len(loads) + 1
           /\ loads'[last'.inv].pc = "resolved"
           /\ [calls' EXCEPT ![m].destroyed = calls[m].destroyed] = calls
           /\ modules'[m].elChildren = modules[m].elChildren
           /\ budget = 1 =>
                /\ calls'[m].css = 1
                /\ calls'[m].data = (IF modules[m].data = "url" THEN 1 ELSE 0)
                /\ calls'[m].tpl = (IF modules[m].template = "url" THEN 1 ELSE 0)
                /\ calls'[m].mount = 1
                /\ calls'[m].onLoad = 1]_vars

\* a second load() right after the first one settled, nothing else called
C1_Witness ==
    /\ last.op = "load" /\ last.mod = 1 /\ last.inv = 2 /\ budget = 2
    /\ loads[1].pc = "resolved" /\ loads[2].pc = "resolved"
    /\ Len(modules[1].elChildren) = 2

\* C2: when a step of load() fails, the load() rejects with that same error,
\* and at that moment errored is true, loaded is false, loadStatus is
\* notLoaded and onError has been invoked.
C2_LoadFailureIsReported ==
    \A m \in Modules :
        (last.op = "catch" /\ last.mod = m
            /\ last.thrown.type \in {"css", "data", "tpl"})
        => /\ loads[last.inv].pc = "rejected"
           /\ loads[last.inv].err = last.thrown
           /\ modules[m].errored = JsTrue
           /\ ~modules[m].loaded
           /\ modules[m].loadStatus = "notLoaded"
           /\ calls[m].onError > 0

\* C3 as stated: loadStatus only moves notLoaded -> loading -> loaded, or
\* loading -> notLoaded.
Strict == {<<"notLoaded", "loading">>, <<"loading", "loaded">>,
           <<"loading", "notLoaded">>}

C3_StrictTransitions ==
    [][\A m \in Modules :
        modules'[m].loadStatus # modules[m].loadStatus
        => <<modules[m].loadStatus, modules'[m].loadStatus>> \in Strict]_vars

\* C3, amended: besides the three moves above, loadStatus goes loaded ->
\* notLoaded (error() or destroy() on a loaded Module) and notLoaded -> loaded
\* (a load() in flight completes after the status was reset); it never goes
\* from loaded to loading.
C3_Transitions ==
    [][\A m \in Modules :
        modules'[m].loadStatus # modules[m].loadStatus
        => <<modules[m].loadStatus, modules'[m].loadStatus>> \in
            Strict \cup {<<"loaded", "notLoaded">>, <<"notLoaded", "loaded">>}]_vars

\* load() settled, then destroy(): loaded -> notLoaded has just happened
C3_Witness ==
    /\ last.op = "destroy" /\ last.mod = 1 /\ budget = 2
    /\ Len(loads) = 1 /\ loads[1].pc = "resolved"
    /\ modules[1].loadStatus = "notLoaded"

\* C4 as stated: _elChildren is empty exactly when loaded is false.
C4_EmptyIffNotLoaded ==
    \A m \in objects : (modules[m].elChildren = <<>>) <=> ~modules[m].loaded

\* C4, amended: _elChildren holds nodes only if a load() has reached its
\* mounting step since construction or the last destroy() that returned;
\* loaded may be true with no node mounted, and false with nodes mounted.
C4_MountedOnlyByLoad ==
    \A m \in objects : modules[m].elChildren # <<>> => calls[m].sinceReset > 0

\* error() after a successful load(): not loaded, the nodes still mounted
C4_Witness ==
    /\ last.op = "error" /\ ~modules[1].loaded
    /\ modules[1].elChildren # <<>>
    /\ Range(modules[1].elChildren) \subseteq Range(modules[1].childNodes)

\* C5: after destroy() returns, loaded, active, disabled and errored are all
\* false (or still unassigned) and loadStatus is notLoaded.
C5_DestroyResetsFlags ==
    \A m \in Modules :
        (last.op = "destroy" /\ m \in last.done)
        => /\ ~modules[m].loaded
           /\ ~modules[m].active
           /\ modules[m].disabled # JsTrue
           /\ modules[m].errored # JsTrue
           /\ modules[m].loadStatus = "notLoaded"

\* C6: if the element carried the disabled class before construction, then
\* after destroy() it carries it again and the disabled flag is not true.
C6_DisabledRestoredFlagCleared ==
    \A m \in Modules :
        (last.op = "destroy" /\ m \in last.done
            /\ disabledClass \in modules[m].preClassList)
        => /\ disabledClass \in modules[m].classList
           /\ modules[m].disabled # JsTrue

\* C7: after destroy() returns, the element carries the disabled class and
\* the error class exactly when it carried them before construction, and
\* carries neither the loaded nor the active class.
C7_MarkersRestored ==
    \A m \in Modules :
        (last.op = "destroy" /\ m \in last.done)
        => /\ disabledClass \in modules[m].classList
                <=> disabledClass \in modules[m].preClassList
           /\ errorClass \in modules[m].classList
                <=> errorClass \in modules[m].preClassList
           /\ loadedClass \notin modules[m].classList
           /\ activeClass \notin modules[m].classList

\* originally disabled and not in error; enable() and error() were called
\* before destroy(), so both classes had been changed
C7_Witness ==
    /\ last.op = "destroy" /\ 1 \in last.done
    /\ modules[1].preClassList = {disabledClass}
    /\ modules[1].disabled = JsFalse
    /\ calls[1].onError > 0
    /\ modules[1].classList = {disabledClass}

\* C8: destroy() on a loaded Module returns, leaves none of the nodes of
\* _elChildren attached to the element, empties _elChildren and leaves
\* loaded false and loadStatus notLoaded, also when one of the nodes had
\* already been taken out of the element.
C8_DestroyUnmounts ==
    [][\A m \in Modules :
        (modules[m].loaded /\ last'.op = "destroy" /\ last'.mod = m)
        => /\ ~last'.threw
           /\ Range(modules[m].elChildren) \cap Range(modules'[m].childNodes) = {}
           /\ modules'[m].elChildren = <<>>
           /\ ~modules'[m].loaded
           /\ modules'[m].loadStatus = "notLoaded"]_vars

\* load() mounted two nodes, one was removed by other code, then destroy()
C8_Witness ==
    /\ last.op = "destroy" /\ last.mod = 1 /\ ~last.threw /\ budget = 3
    /\ Len(loads) = 1 /\ loads[1].pc = "resolved" /\ Len(loads[1].nodes) = 2
    /\ calls[1].removed = 1
    /\ modules[1].childNodes = <<>> /\ modules[1].elChildren = <<>>

\* C9: when a load() succeeds (one that did not overlap another load() of
\* the same Module), _elChildren holds exactly the nodes template resolution
\* produced, in that order, and they are children of the element in that
\* order.
RECURSIVE IsSubSeq(_, _)
IsSubSeq(s, t) ==
    IF s = <<>> THEN TRUE
    ELSE IF t = <<>> THEN FALSE
    ELSE IF Head(s) = Head(t) THEN IsSubSeq(Tail(s), Tail(t))
    ELSE IsSubSeq(s, Tail(t))

C9_MountedAreTemplateNodes ==
    \A m \in Modules :
        (last.op = "mount" /\ last.mod = m /\ ~last.threw
            /\ ~loads[last.inv].overlap)
        => /\ modules[m].elChildren = loads[last.inv].nodes
           /\ IsSubSeq(loads[last.inv].nodes, modules[m].childNodes)

\* C10: in every load() invocation the steps are taken in the order
\* styles, data, template, mount; styles are not requested before every
\* subModule's load() has resolved; and loaded becomes true only in the
\* mounting step.
Order == <<"css", "data", "tpl", "mount">>

C10_StrictOrder ==
    /\ [](\A i \in 1..Len(loads) :
            /\ Len(loads[i].log) <= Len(Order)
            /\ loads[i].log = SubSeq(Order, 1, Len(loads[i].log))
            /\ loads[i].log # <<>> =>
                \A j \in loadPromises(loads, i) : loads[j].pc = "resolved")
    /\ [][\A m \in Modules :
            (~modules[m].loaded /\ modules'[m].loaded)
            => /\ last'.op = "mount" /\ last'.mod = m
               /\ loads'[last'.inv].log = Order]_vars

\* a parent has mounted after both of its subModules' loads resolved
C10_Witness ==
    /\ last.op = "mount" /\ last.mod = 1 /\ modules[1].loaded
    /\ loads[1].log = Order
    /\ Cardinality(loadPromises(loads, 1)) = 2
    /\ \A j \in loadPromises(loads, 1) : loads[j].log = Order

\* C11: a load() invocation that has moved past its child-load step (it has
\* requested styles or a later step, or its error path has run and it has
\* settled) finds every subModule load() it started settled. Stated for
\* trees in which every Module has an element.
Settled(lds, j) == lds[j].pc \in {"resolved", "rejected"}

C11_ParentWaitsForAllChildren ==
    (\A m \in objects : modules[m].el)
    => \A i \in 1..Len(loads) :
        loads[i].pc \in {"css", "data", "tpl", "resolved", "rejected"}
        => \A j \in loadPromises(loads, i) : Settled(loads, j)

\* C12: on a Module constructed without an element no lifecycle operation
\* (load and its steps, show, hide, enable, disable, error, destroy) raises
\* a failure.
C12_NoElementDegradesGracefully ==
    \A m \in objects : (~modules[m].el /\ last.mod = m) => ~last.threw

\* C13: getClosestAncestorElementByClassName(c, el) called with a start
\* element returns the nearest node from el upwards (el included) that
\* carries c, and null when no element of the chain up to the document does;
\* it never inspects a node above the first one that carries c, makes at most
\* one iteration per node of the chain, and returns.
Matches(w) ==
    {k \in w.startTarget..Len(w.chain) :
        w.chain[k].kind = "Element" /\ w.chain[k].hasClass}

Nearest(w) ==
    IF Matches(w) = {} THEN Null
    ELSE CHOOSE k \in Matches(w) : \A j \in Matches(w) : k <= j

C13_NearestAncestor ==
    /\ [](walk.startTarget # Null =>
            /\ walk.pc # "threw"
            /\ walk.pc = "done" => walk.result = Nearest(walk)
            /\ \A k \in walk.inspected :
                /\ k >= walk.startTarget
                /\ \A j \in walk.startTarget..(k - 1) : ~walk.chain[j].hasClass
            /\ walk.iterations <= Len(walk.chain))
    /\ (walk.startTarget # Null) ~> (walk.pc = "done")

\* started at the first of three elements, the second and the third carry
\* the class: the second is returned, the third was never inspected
C13_Witness ==
    /\ walk.pc = "done" /\ walk.startTarget = 1 /\ Len(walk.chain) = 4
    /\ ~walk.chain[1].hasClass /\ walk.chain[2].hasClass /\ walk.chain[3].hasClass
    /\ walk.chain[4].kind = "Document"
    /\ walk.result = 2 /\ walk.inspected = {1, 2}

\* C14: when enable() is called right after disable() on the same Module,
\* disabled is false and the element does not carry the disabled class,
\* whatever classes it carried before construction.
C14_DisableThenEnable ==
    \A m \in Modules :
        (last.op = "enable" /\ last.mod = m /\ last.after = "disable")
        => /\ modules[m].disabled = JsFalse
           /\ disabledClass \notin modules[m].classList

\* disable() then enable() on an element that was disabled before construction
C14_Witness ==
    /\ last.op = "enable" /\ last.mod = 1 /\ last.after = "disable"
    /\ modules[1].el /\ disabledClass \in modules[1].preClassList
    /\ modules[1].origDisabled

\* C15: destroy() on a parent destroys every Module of its child map and,
\* recursively, of theirs: each descendant ends with its flags reset, its
\* disabled and error classes as before construction, neither the loaded nor
\* the active class, none of its mounted nodes attached and _elChildren
\* empty; and the parent's child map is empty.
RECURSIVE Descendants(_, _)
Descendants(ms, m) ==
    ms[m].subModules \cup UNION {Descendants(ms, c) : c \in ms[m].subModules}

IsReset(before, after) ==
    /\ ~after.loaded /\ ~after.active
    /\ after.errored # JsTrue /\ after.disabled # JsTrue
    /\ after.loadStatus = "notLoaded"
    /\ after.subModules = {}
    /\ after.el =>
        /\ (disabledClass \in after.classList) <=> (disabledClass \in after.preClassList)
        /\ (errorClass \in after.classList) <=> (errorClass \in after.preClassList)
        /\ loadedClass \notin after.classList
        /\ activeClass \notin after.classList
    /\ Range(before.elChildren) \cap Range(after.childNodes) = {}
    /\ after.elChildren = <<>>

C15_DestroyIsRecursive ==
    [][\A m \in Modules :
        (last'.op = "destroy" /\ last'.mod = m /\ modules[m].subModules # {})
        => /\ modules'[m].subModules = {}
           /\ \A d \in Descendants(modules, m) :
                IsReset(modules[d], modules'[d])]_vars

\* C16: when error() has been called on a Module, the call has not thrown,
\* the element (if any) carries the error class, errored is true, loaded is
\* false, loadStatus is notLoaded and onError has been invoked with the
\* error value, which is the default Error when none was supplied.
C16_ErrorMarksAndReports ==
    \A m \in Modules :
        (last.op = "error" /\ last.mod = m)
        => /\ ~last.threw
           /\ modules[m].el => errorClass \in modules[m].classList
           /\ modules[m].errored = JsTrue
           /\ ~modules[m].loaded
           /\ modules[m].loadStatus = "notLoaded"
           /\ calls[m].onError > 0
           /\ last.err.type = "Error"

\* C17: in every reachable state, a Module whose errored flag is true has
\* loaded false and a loadStatus other than loaded.
C17_ErroredIsUnloaded ==
    \A m \in objects :
        modules[m].errored = JsTrue
        => ~modules[m].loaded /\ modules[m].loadStatus # "loaded"

\* C18: on a Module with an element, as long as no collaborator has failed
\* and error() has not been called, the mounting step has run at most once
\* since construction or the last destroy() (so onLoad was invoked at most
\* once and the template nodes were mounted once), and when it runs
\* _elChildren holds no more than the nodes that template resolution
\* produced; in particular when load() was called again while a load() was
\* in flight.
C18_ReentrantLoadMountsOnce ==
    \A m \in objects :
        (modules[m].el /\ calls[m].onError = 0)
        => /\ calls[m].sinceReset <= 1
           /\ (last.op = "mount" /\ last.mod = m)
                => Len(modules[m].elChildren) <= Len(loads[last.inv].nodes)

\* C19: once destroy() has returned on a Module, and until load() is called
\* on it again, loaded is false, loadStatus is notLoaded, _elChildren is
\* empty and the element does not carry the loaded class, also when a load()
\* called before the destroy() settles afterwards.
C19_DestroyedStaysUnloaded ==
    \A m \in objects :
        calls[m].destroyed
        => /\ ~modules[m].loaded
           /\ modules[m].loadStatus = "notLoaded"
           /\ modules[m].elChildren = <<>>
           /\ loadedClass \notin modules[m].classList

\* C20: in every reachable state of a Module whose element did not carry
\* the loaded class when it was constructed, the element carries the loaded
\* class exactly when the loaded flag is true.
C20_LoadedClassIffLoaded ==
    \A m \in objects :
        (modules[m].el /\ loadedClass \notin modules[m].preClassList)
        => (loadedClass \in modules[m].classList <=> modules[m].loaded)
====
